---- MODULE Spec2Model ----
(***************************************************************************)
(* Tempo-Walk: the workout phase state machine and metronome scheduler of  *)
(* src/src/App.svelte.  One action per handler or timer callback.  The     *)
(* asynchronous functions (initAudioContextAndLoadFiles, handleStart) are  *)
(* split at their awaits; everything between two awaits is one step, as on *)
(* the single-threaded event loop.                                         *)
(***************************************************************************)
EXTENDS Integers, Sequences, FiniteSets, TLC

VARIABLES
    slowBpm, slowDurationSeconds, fastBpm, fastDurationSeconds, \* App.svelte:14-17
    volume,                                                     \* App.svelte:18
    isPlaying, isPaused, currentPhase, totalTime, remainingTime, \* App.svelte:20-24
    isAudioReady,                                               \* App.svelte:25
    metronomeIntervalId, countdownTimerId,                      \* App.svelte:28-29
    audioContext, tickBuffer, tackBuffer,                       \* App.svelte:30-32
    beatCounter,                                                \* App.svelte:33
    intervals,      \* the browser's live setInterval registrations
    loadPc,         \* where initAudioContextAndLoadFiles/loadAudioFiles is suspended
    pendingStarts,  \* handleStart calls suspended at `await audioContext.resume()`
    event,          \* the handler or callback that ran last, with what it emitted
    run,            \* history: ticks since the last fresh start, if uninterrupted
    debounceTimeoutId,                                          \* App.svelte:37
    saveTimers,     \* the pending setTimeout registrations of debouncedSaveSettings
    store,          \* the settings held by localStorage under LOCAL_STORAGE_KEY
    sinceEdit,      \* history: ms since debouncedSaveSettings was last called
    burst,          \* history: calls of debouncedSaveSettings since the last write
    writes,         \* history: writes to the store since that last call
    messageBox,     \* the message element: its text and its opacity
    hideTimers,     \* the delays left of the pending hide timeouts of showMessage
    leg             \* history: ticks since the last transition tick, if uninterrupted

config  == <<slowBpm, slowDurationSeconds, fastBpm, fastDurationSeconds, volume>>
session == <<isPlaying, isPaused, currentPhase, totalTime, remainingTime>>
timers  == <<metronomeIntervalId, countdownTimerId, intervals>>
loading == <<isAudioReady, tickBuffer, tackBuffer, loadPc>>
saver   == <<debounceTimeoutId, saveTimers, store, sinceEdit, burst, writes>>
surface == <<messageBox, hideTimers>>
vars    == <<config, session, timers, loading, audioContext, beatCounter,
             pendingStarts, event, run, saver, surface, leg>>

---------------------------------------------------------------------------
(* Bounds of the exploration. *)
MaxTotal   == 14   \* ticks explored per session (totalTime is unbounded in the code)
MaxPending == 2    \* overlapping handleStart calls suspended on resume()
MaxBurst   == 3    \* calls of debouncedSaveSettings counted in one burst
MaxWalk    == 34   \* ticks explored per session where whole phases are walked

(* Program constants. *)
MinBpm          == 40
MaxBpm          == 240
MinDuration     == 10
MaxDuration     == 300
beatsPerMeasure == 2
DEBOUNCE_DELAY_MS == 500
MessageDuration == 3000  \* showMessage(message, duration = 3000)
DefaultVolume   == 60    \* let volume = $state(60)
MaxVolume       == 100   \* the slider's max; its min is 0
VolumeStep      == 10    \* the slider's step
Null            == 0     \* null handle; `if (id)` treats null and 0 alike
NaN             == -1000 \* a stored value for which isNaN() is true
HalfBase        == 100000 \* HalfBase + n stands for the number n + 0.5

(* Values a settings field takes in the main specification, loaded from   *)
(* the store or typed into the bound input: one in range and one out of    *)
(* range (39, 2) for each field, the in-range values of the two phases     *)
(* distinct.                                                               *)
SlowBpmValues == {39, 60}
FastBpmValues == {39, 120}
SlowDurValues == {2, 10}
FastDurValues == {2, 11}

(* Values at and around the validation limits, for the validation claims. *)
BpmBoundary == {39, 40, 240, 241, NaN}
DurBoundary == {9, 10, 300, 301, NaN}

MsgResumeFailed == "Failed to activate audio. Please try again or check browser settings."
MsgAudioNotReady == "Audio is still loading or failed to load. Please wait a moment and try again."
MsgValidation == "Please ensure all BPMs are between 40-240 and durations are between 10-300 seconds."
MsgLoadFailed == "Failed to load metronome sounds."
MsgAudioUnsupported == "Audio not supported or failed to load. Metronome sound will not work."

---------------------------------------------------------------------------
(* JavaScript number helpers: every comparison with NaN is false, and     *)
(* NaN - 1 is NaN.  A number input without a step attribute also accepts   *)
(* fractions: Half(n) stands for n + 0.5, isHalf recognises it, and        *)
(* Twice(x) is the integer 2x that the comparisons use.                    *)
isNaN(x) == x = NaN
Half(n)  == HalfBase + n
isHalf(x) == x > HalfBase \div 2
Twice(x) == IF isHalf(x) THEN 2 * (x - HalfBase) + 1 ELSE 2 * x
isInteger(x) == ~isNaN(x) /\ ~isHalf(x)
Lt(x, y) == ~isNaN(x) /\ ~isNaN(y) /\ Twice(x) < Twice(y)
Gt(x, y) == ~isNaN(x) /\ ~isNaN(y) /\ Twice(x) > Twice(y)
Le(x, y) == ~isNaN(x) /\ ~isNaN(y) /\ Twice(x) <= Twice(y)
Dec(x)   == IF isNaN(x) THEN NaN ELSE x - 1

(* The browser's timer table.  setInterval returns a positive id not in   *)
(* use; the program never keeps the id of a cleared interval, so the least *)
(* unused id stands for the fresh one.                                     *)
FreshId(ivs) ==
    CHOOSE i \in 1..(Cardinality(ivs) + 1) :
        /\ \A t \in ivs : t.id # i
        /\ \A j \in 1..(i - 1) : \E t \in ivs : t.id = j

clearInterval(ivs, id) == {t \in ivs : t.id # id}

setInterval(ivs, fn, ms) == ivs \cup {[id |-> FreshId(ivs), fn |-> fn, ms |-> ms]}

(* const intervalDuration = (60 / bpmToUse) * 1000; setInterval takes the  *)
(* delay as an integer number of milliseconds, and NaN as 0.               *)
intervalDuration(bpmToUse) ==
    IF isNaN(bpmToUse) \/ bpmToUse <= 0 THEN 0 ELSE 60000 \div bpmToUse

(* Mutant: the gain is linear in the volume. *)
effectiveVolumeGainLinear(vol) == [num |-> vol, den |-> 100]

(* The gain playClick sets on its gain node, as the exact fraction          *)
(* num / den of Math.pow(volume / 100, 2).                                 *)
effectiveVolumeGain(vol) == [num |-> vol * vol, den |-> 100 * 100]

(* The earlier single-file variant doubles it: Math.pow(volume / 100, 2) * 2. *)
effectiveVolumeGainTimes2(vol) == [num |-> vol * vol * 2, den |-> 100 * 100]

(* playClick: the sounds it emits and the beat counter it leaves. *)
audioPlayable == audioContext # "null" /\ tickBuffer /\ tackBuffer

playClickSound(beat) ==
    IF ~audioPlayable THEN <<>>
    ELSE IF beat % beatsPerMeasure = 0 THEN <<"tick">> ELSE <<"tack">>

(* Mutant: the beat counter is incremented without the modulo. *)
playClickBeatNoWrap(beat) ==
    IF ~audioPlayable THEN beat ELSE beat + 1

(* Mutant: the beat counter advances although nothing can be played. *)
playClickBeatNoGuard(beat) == (beat + 1) % beatsPerMeasure

playClickBeat(beat) ==
    IF ~audioPlayable THEN beat ELSE (beat + 1) % beatsPerMeasure

(* Mutant: the previous click interval is not cleared before rescheduling. *)
startMetronomeClicksNoClear(ivs, bpmToUse) ==
    [ivs    |-> setInterval(ivs, "playClick", intervalDuration(bpmToUse)),
     id     |-> FreshId(ivs),
     beat   |-> playClickBeat(0),
     played |-> playClickSound(0)]

(* Mutant: the beat counter is not reset before the immediate click. *)
startMetronomeClicksKeepsBeat(ivs, bpmToUse) ==
    LET cleared == IF metronomeIntervalId # Null
                   THEN clearInterval(ivs, metronomeIntervalId) ELSE ivs
    IN  [ivs    |-> setInterval(cleared, "playClick", intervalDuration(bpmToUse)),
         id     |-> FreshId(cleared),
         beat   |-> playClickBeat(beatCounter),
         played |-> playClickSound(beatCounter)]

(* startMetronomeClicks(bpmToUse) applied to the timer table ivs: the new  *)
(* table, the new handle, the beat counter and the sounds emitted.         *)
startMetronomeClicks(ivs, bpmToUse) ==
    LET cleared == IF metronomeIntervalId # Null
                   THEN clearInterval(ivs, metronomeIntervalId) ELSE ivs
    IN  [ivs    |-> setInterval(cleared, "playClick", intervalDuration(bpmToUse)),
         id     |-> FreshId(cleared),
         beat   |-> playClickBeat(0),
         played |-> playClickSound(0)]

(* Mutant: the handle is dropped without clearing the interval. *)
stopMetronomeClicksLeak(ivs) == [ivs |-> ivs, id |-> Null]

(* stopMetronomeClicks applied to the timer table ivs. *)
stopMetronomeClicks(ivs) ==
    IF metronomeIntervalId # Null
    THEN [ivs |-> clearInterval(ivs, metronomeIntervalId), id |-> Null]
    ELSE [ivs |-> ivs, id |-> metronomeIntervalId]

(* Mutant: the countdown handle is dropped without clearing the interval. *)
stopCountdownLeak(ivs) == [ivs |-> ivs, id |-> Null]

(* if (countdownTimerId) { clearInterval(countdownTimerId); countdownTimerId = null; } *)
stopCountdown(ivs) ==
    IF countdownTimerId # Null
    THEN [ivs |-> clearInterval(ivs, countdownTimerId), id |-> Null]
    ELSE [ivs |-> ivs, id |-> countdownTimerId]

(* Mutant: the 1-second interval is not set. *)
startCountdownNever(ivs) == [ivs |-> stopCountdown(ivs).ivs, id |-> Null]

(* if (countdownTimerId) clearInterval(countdownTimerId);                  *)
(* countdownTimerId = setInterval(updatePhase, 1000);                      *)
startCountdown(ivs) ==
    LET cleared == IF countdownTimerId # Null
                   THEN clearInterval(ivs, countdownTimerId) ELSE ivs
    IN  [ivs |-> setInterval(cleared, "updatePhase", 1000), id |-> FreshId(cleared)]

(* Mutant: the bpm of the other phase. *)
phaseBpmSwapped(phase) == IF phase = "slow" THEN fastBpm ELSE slowBpm

(* currentPhase === "slow" ? slowBpm : fastBpm *)
phaseBpm(phase) == IF phase = "slow" THEN slowBpm ELSE fastBpm

(* Mutant: the limits themselves are rejected. *)
validationFailsAtLimits(sBpm, sDur, fBpm, fDur) ==
    \/ isNaN(sBpm) \/ Le(sBpm, MinBpm) \/ Gt(sBpm, MaxBpm)
    \/ isNaN(sDur) \/ Le(sDur, MinDuration) \/ Gt(sDur, MaxDuration)
    \/ isNaN(fBpm) \/ Le(fBpm, MinBpm) \/ Gt(fBpm, MaxBpm)
    \/ isNaN(fDur) \/ Le(fDur, MinDuration) \/ Gt(fDur, MaxDuration)

(* The range check of handleStart. *)
validationFails(sBpm, sDur, fBpm, fDur) ==
    \/ isNaN(sBpm) \/ Lt(sBpm, MinBpm) \/ Gt(sBpm, MaxBpm)
    \/ isNaN(sDur) \/ Lt(sDur, MinDuration) \/ Gt(sDur, MaxDuration)
    \/ isNaN(fBpm) \/ Lt(fBpm, MinBpm) \/ Gt(fBpm, MaxBpm)
    \/ isNaN(fDur) \/ Lt(fDur, MinDuration) \/ Gt(fDur, MaxDuration)

Event(op, result, shown, played) ==
    [op |-> op, result |-> result, shown |-> shown, played |-> played]

NoRun == [k |-> -1, d |-> 0]

(* What an earlier visit left under LOCAL_STORAGE_KEY. *)
StoreAtMount == "intervalWalkSettings of an earlier visit"

(* The message element before any message: no text, transparent.  Its     *)
(* textContent is kept as the sequence of the messages it holds.           *)
NoMessage == [text |-> <<>>, opacity |-> 0]

---------------------------------------------------------------------------
(* The state once the component is mounted and the first $effect has run   *)
(* up to its first await: settings loaded from the store (any stored       *)
(* values), the AudioContext constructed (suspended until a user gesture,  *)
(* or running) or its constructor thrown, the sound files being fetched.   *)
InitWith(sBpms, sDurs, fBpms, fDurs, vols) ==
    /\ slowBpm \in sBpms /\ fastBpm \in fBpms
    /\ volume \in vols
    /\ slowDurationSeconds \in sDurs /\ fastDurationSeconds \in fDurs
    /\ isPlaying = FALSE /\ isPaused = FALSE /\ currentPhase = "ready"
    /\ totalTime = 0 /\ remainingTime = 0
    /\ isAudioReady = FALSE /\ tickBuffer = FALSE /\ tackBuffer = FALSE
    /\ metronomeIntervalId = Null /\ countdownTimerId = Null /\ intervals = {}
    /\ beatCounter = 0 /\ pendingStarts = 0 /\ run = NoRun
    /\ \/ /\ audioContext \in {"suspended", "running"}
          /\ loadPc = "fetchTick"
          /\ event = Event("mount", "loading", <<>>, <<>>)
          /\ messageBox = NoMessage /\ hideTimers = {}
       \/ /\ audioContext = "null"
          /\ loadPc = "failed"
          /\ event = Event("mount", "failed", <<MsgAudioUnsupported>>, <<>>)
          /\ messageBox = [text |-> <<MsgAudioUnsupported>>, opacity |-> 1]
          /\ hideTimers = {MessageDuration}
    /\ store = StoreAtMount
    /\ debounceTimeoutId = 1
    /\ saveTimers = {[id |-> 1, due |-> DEBOUNCE_DELAY_MS]}
    /\ sinceEdit = 0 /\ burst = 1 /\ writes = 0
    /\ leg = NoRun

Init == InitWith(SlowBpmValues, SlowDurValues, FastBpmValues, FastDurValues,
                 {DefaultVolume})

(* Mutant: the ready flag is set after the first buffer. *)
loadTickSetsReady ==
    /\ loadPc = "fetchTick"
    /\ tickBuffer' = TRUE
    /\ isAudioReady' = TRUE
    /\ loadPc' = "fetchTack"
    /\ event' = Event("load", "tick", <<>>, <<>>)
    /\ UNCHANGED <<config, session, timers, tackBuffer, audioContext,
                   beatCounter, pendingStarts, run>>

(* loadAudioFiles: tick.mp3 fetched and decoded. *)
loadTick ==
    /\ loadPc = "fetchTick"
    /\ tickBuffer' = TRUE
    /\ loadPc' = "fetchTack"
    /\ event' = Event("load", "tick", <<>>, <<>>)
    /\ UNCHANGED <<config, session, timers, isAudioReady, tackBuffer, audioContext,
                   beatCounter, pendingStarts, run>>

(* loadAudioFiles: tack.mp3 fetched and decoded; back in                   *)
(* initAudioContextAndLoadFiles, isAudioReady = true.                      *)
loadTack ==
    /\ loadPc = "fetchTack"
    /\ tackBuffer' = TRUE
    /\ isAudioReady' = TRUE
    /\ loadPc' = "done"
    /\ event' = Event("load", "ready", <<>>, <<>>)
    /\ UNCHANGED <<config, session, timers, tickBuffer, audioContext,
                   beatCounter, pendingStarts, run>>

(* A fetch or a decode fails: loadAudioFiles shows its message and         *)
(* rethrows, initAudioContextAndLoadFiles shows its own and leaves         *)
(* isAudioReady false.  Nothing retries.                                   *)
loadFail ==
    /\ loadPc \in {"fetchTick", "fetchTack"}
    /\ isAudioReady' = FALSE
    /\ loadPc' = "failed"
    /\ event' = Event("load", "failed", <<MsgLoadFailed, MsgAudioUnsupported>>, <<>>)
    /\ UNCHANGED <<config, session, timers, tickBuffer, tackBuffer, audioContext,
                   beatCounter, pendingStarts, run>>

(* The browser suspends a running AudioContext (interruption, autoplay     *)
(* policy); handleStart tests for this state.                              *)
contextSuspend ==
    /\ audioContext = "running"
    /\ audioContext' = "suspended"
    /\ event' = Event("suspend", "suspended", <<>>, <<>>)
    /\ UNCHANGED <<config, session, timers, loading, beatCounter, pendingStarts, run>>

---------------------------------------------------------------------------
(* handleStart after its await: the audio-ready check, the range check,    *)
(* then resume (isPaused) or a new workout.  audioContext and              *)
(* pendingStarts are set by the actions that use it.                       *)
(* Mutant: a rejected start clamps the stored slow bpm into range. *)
startRejectedClamps(result, message) ==
    /\ event' = Event("start", result, <<message>>, <<>>)
    /\ slowBpm' = IF Lt(slowBpm, MinBpm) THEN MinBpm ELSE slowBpm
    /\ UNCHANGED <<slowDurationSeconds, fastBpm, fastDurationSeconds, volume, session, timers,
                   loading, beatCounter, run>>

startRejected(result, message) ==
    /\ event' = Event("start", result, <<message>>, <<>>)
    /\ UNCHANGED <<config, session, timers, loading, beatCounter, run>>

startResume ==
    LET m == startMetronomeClicks(intervals, phaseBpm(currentPhase))
        c == startCountdown(m.ivs)
    IN  /\ isPaused' = FALSE
        /\ isPlaying' = TRUE
        /\ metronomeIntervalId' = m.id
        /\ beatCounter' = m.beat
        /\ countdownTimerId' = c.id
        /\ intervals' = c.ivs
        /\ run' = NoRun
        /\ event' = Event("start", "resumed", <<>>, m.played)
        /\ UNCHANGED <<config, currentPhase, totalTime, remainingTime, loading>>

(* Mutant: a new workout counts down the fast duration. *)
startNewFastDuration ==
    LET m == startMetronomeClicks(intervals, slowBpm)
        c == startCountdown(m.ivs)
    IN  /\ isPlaying' = TRUE
        /\ isPaused' = FALSE
        /\ currentPhase' = "slow"
        /\ remainingTime' = fastDurationSeconds
        /\ metronomeIntervalId' = m.id
        /\ beatCounter' = m.beat
        /\ countdownTimerId' = c.id
        /\ intervals' = c.ivs
        /\ run' = [k |-> 0, d |-> slowDurationSeconds]
        /\ event' = Event("start", "started", <<>>, m.played)
        /\ UNCHANGED <<config, totalTime, loading>>

startNew ==
    LET m == startMetronomeClicks(intervals, slowBpm)
        c == startCountdown(m.ivs)
    IN  /\ isPlaying' = TRUE
        /\ isPaused' = FALSE
        /\ currentPhase' = "slow"
        /\ remainingTime' = slowDurationSeconds
        /\ metronomeIntervalId' = m.id
        /\ beatCounter' = m.beat
        /\ countdownTimerId' = c.id
        /\ intervals' = c.ivs
        /\ run' = [k |-> 0, d |-> slowDurationSeconds]
        /\ event' = Event("start", "started", <<>>, m.played)
        /\ UNCHANGED <<config, totalTime, loading>>

(* Mutant: the audio-ready check is missing. *)
startBodyNoReadyCheck ==
    IF validationFails(slowBpm, slowDurationSeconds, fastBpm, fastDurationSeconds)
    THEN startRejected("ValidationFailed", MsgValidation)
    ELSE IF isPaused THEN startResume ELSE startNew

(* Mutant: a paused workout is resumed without the range check. *)
startBodyResumeUnchecked ==
    IF ~isAudioReady
    THEN startRejected("AudioNotReady", MsgAudioNotReady)
    ELSE IF isPaused THEN startResume
    ELSE IF validationFails(slowBpm, slowDurationSeconds, fastBpm, fastDurationSeconds)
    THEN startRejected("ValidationFailed", MsgValidation)
    ELSE startNew

startBody ==
    IF ~isAudioReady
    THEN startRejected("AudioNotReady", MsgAudioNotReady)
    ELSE IF validationFails(slowBpm, slowDurationSeconds, fastBpm, fastDurationSeconds)
    THEN startRejected("ValidationFailed", MsgValidation)
    ELSE IF isPaused THEN startResume ELSE startNew

(* handleStart called with the context not suspended: no await is reached  *)
(* and the whole body runs in the calling step.                            *)
handleStart ==
    /\ audioContext # "suspended"
    /\ startBody
    /\ UNCHANGED <<audioContext, pendingStarts>>

(* handleStart called with the context suspended: it awaits resume(). *)
handleStartAwait ==
    /\ audioContext = "suspended"
    /\ pendingStarts < MaxPending
    /\ pendingStarts' = pendingStarts + 1
    /\ event' = Event("startAwait", "awaiting", <<>>, <<>>)
    /\ UNCHANGED <<config, session, timers, loading, audioContext, beatCounter, run>>

(* resume() resolves for one suspended call, which runs on. *)
handleStartResumed ==
    /\ pendingStarts > 0
    /\ pendingStarts' = pendingStarts - 1
    /\ audioContext' = "running"
    /\ startBody

(* Mutant: the rejection of resume() is ignored and the call runs on. *)
handleStartResumeFailedRunsOn ==
    /\ pendingStarts > 0
    /\ pendingStarts' = pendingStarts - 1
    /\ startBody
    /\ UNCHANGED audioContext

(* resume() rejects for one suspended call: message, return. *)
handleStartResumeFailed ==
    /\ pendingStarts > 0
    /\ pendingStarts' = pendingStarts - 1
    /\ startRejected("AudioResumeFailed", MsgResumeFailed)
    /\ UNCHANGED audioContext

(* Mutant: the guard `if (!isPlaying) return` is missing. *)
handlePauseUnguarded ==
    LET m == stopMetronomeClicks(intervals)
        c == stopCountdown(m.ivs)
    IN  /\ isPaused' = TRUE
        /\ isPlaying' = FALSE
        /\ metronomeIntervalId' = m.id
        /\ countdownTimerId' = c.id
        /\ intervals' = c.ivs
        /\ run' = NoRun
        /\ event' = Event("pause", IF isPlaying THEN "paused" ELSE "ignored", <<>>, <<>>)
        /\ UNCHANGED <<config, currentPhase, totalTime, remainingTime, loading,
                       audioContext, beatCounter, pendingStarts>>

handlePause ==
    IF ~isPlaying
    THEN /\ event' = Event("pause", "ignored", <<>>, <<>>)
         /\ UNCHANGED <<config, session, timers, loading, audioContext, beatCounter,
                        pendingStarts, run>>
    ELSE LET m == stopMetronomeClicks(intervals)
             c == stopCountdown(m.ivs)
         IN  /\ isPaused' = TRUE
             /\ isPlaying' = FALSE
             /\ metronomeIntervalId' = m.id
             /\ countdownTimerId' = c.id
             /\ intervals' = c.ivs
             /\ run' = NoRun
             /\ event' = Event("pause", "paused", <<>>, <<>>)
             /\ UNCHANGED <<config, currentPhase, totalTime, remainingTime, loading,
                            audioContext, beatCounter, pendingStarts>>

(* Mutant: stop() leaves the elapsed total as it is. *)
handleStopKeepsTotal ==
    LET m == stopMetronomeClicks(intervals)
        c == stopCountdown(m.ivs)
    IN  /\ isPlaying' = FALSE
        /\ isPaused' = FALSE
        /\ metronomeIntervalId' = m.id
        /\ countdownTimerId' = c.id
        /\ intervals' = c.ivs
        /\ currentPhase' = "ready"
        /\ remainingTime' = 0
        /\ beatCounter' = 0
        /\ run' = NoRun
        /\ event' = Event("stop", IF isPlaying THEN "running"
                                   ELSE IF isPaused THEN "paused" ELSE "ready",
                          <<>>, <<>>)
        /\ UNCHANGED <<config, totalTime, loading, audioContext, pendingStarts>>

(* Mutant: one call clears one timer, the click interval first. *)
handleStopElseIf ==
    LET m == stopMetronomeClicks(intervals)
        c == IF metronomeIntervalId # Null
             THEN [ivs |-> m.ivs, id |-> countdownTimerId]
             ELSE stopCountdown(m.ivs)
    IN  /\ isPlaying' = FALSE
        /\ isPaused' = FALSE
        /\ metronomeIntervalId' = m.id
        /\ countdownTimerId' = c.id
        /\ intervals' = c.ivs
        /\ currentPhase' = "ready"
        /\ remainingTime' = 0
        /\ beatCounter' = 0
        /\ totalTime' = 0
        /\ run' = NoRun
        /\ event' = Event("stop", IF isPlaying THEN "running"
                                   ELSE IF isPaused THEN "paused" ELSE "ready",
                          <<>>, <<>>)
        /\ UNCHANGED <<config, loading, audioContext, pendingStarts>>

(* Mutant: stop() leaves the phase as it is. *)
handleStopKeepsPhase ==
    LET m == stopMetronomeClicks(intervals)
        c == stopCountdown(m.ivs)
    IN  /\ isPlaying' = FALSE
        /\ isPaused' = FALSE
        /\ metronomeIntervalId' = m.id
        /\ countdownTimerId' = c.id
        /\ intervals' = c.ivs
        /\ remainingTime' = 0
        /\ beatCounter' = 0
        /\ totalTime' = 0
        /\ run' = NoRun
        /\ event' = Event("stop", IF isPlaying THEN "running"
                                   ELSE IF isPaused THEN "paused" ELSE "ready",
                          <<>>, <<>>)
        /\ UNCHANGED <<config, currentPhase, loading, audioContext, pendingStarts>>

handleStop ==
    LET m == stopMetronomeClicks(intervals)
        c == stopCountdown(m.ivs)
    IN  /\ isPlaying' = FALSE
        /\ isPaused' = FALSE
        /\ metronomeIntervalId' = m.id
        /\ countdownTimerId' = c.id
        /\ intervals' = c.ivs
        /\ currentPhase' = "ready"
        /\ remainingTime' = 0
        /\ beatCounter' = 0
        /\ totalTime' = 0
        /\ run' = NoRun
        /\ event' = Event("stop", IF isPlaying THEN "running"
                                   ELSE IF isPaused THEN "paused" ELSE "ready",
                          <<>>, <<>>)
        /\ UNCHANGED <<config, loading, audioContext, pendingStarts>>

(* updatePhase, the callback of the 1-second interval. *)
(* Mutant: every transition leads to the fast phase. *)
transitionPhaseStuck(phase) == "fast"

transitionPhase(phase) == IF phase = "slow" THEN "fast" ELSE "slow"

(* Mutant: the new phase gets the duration of the phase that ended. *)
transitionTimeOfEndedPhase(phase) ==
    IF phase = "slow" THEN slowDurationSeconds ELSE fastDurationSeconds

transitionTime(phase) ==
    IF phase = "slow" THEN fastDurationSeconds ELSE slowDurationSeconds

(* Mutant: a tick counts two seconds. *)
decrementTimeTwice(time) == Dec(Dec(time))

(* Mutant: a tick leaves the countdown where it is. *)
decrementTimeStuck(time) == time

decrementTime(time) == Dec(time)

clampTime(time) == IF Lt(time, 0) THEN 0 ELSE time

(* The callback, explored while totalTime is below limit. *)
updatePhaseWithin(limit) ==
    /\ \E t \in intervals : t.fn = "updatePhase"
    /\ totalTime < limit
    /\ LET transition == Le(remainingTime, 0)
           phase == IF transition THEN transitionPhase(currentPhase) ELSE currentPhase
           time  == IF transition THEN transitionTime(currentPhase) ELSE remainingTime
           m     == startMetronomeClicks(intervals, phaseBpm(phase))
           counting == isPlaying /\ ~isPaused
       IN  /\ currentPhase' = phase
           /\ IF transition
              THEN /\ metronomeIntervalId' = m.id
                   /\ intervals' = m.ivs
                   /\ beatCounter' = m.beat
              ELSE UNCHANGED <<metronomeIntervalId, intervals, beatCounter>>
           /\ remainingTime' = clampTime(IF counting THEN decrementTime(time) ELSE time)
           /\ totalTime' = IF counting THEN totalTime + 1 ELSE totalTime
           /\ run' = IF run.k >= 0 THEN [run EXCEPT !.k = @ + 1] ELSE run
           /\ event' = Event("tick", IF transition THEN "transition" ELSE "countdown",
                             <<>>, IF transition THEN m.played ELSE <<>>)
    /\ UNCHANGED <<config, isPlaying, isPaused, countdownTimerId, loading, audioContext,
                   pendingStarts>>

(* Mutant: the metronome is restarted at the bpm of the phase that ended. *)
updatePhaseOldTempo ==
    /\ \E t \in intervals : t.fn = "updatePhase"
    /\ totalTime < MaxTotal
    /\ LET transition == Le(remainingTime, 0)
           phase == IF transition THEN transitionPhase(currentPhase) ELSE currentPhase
           time  == IF transition THEN transitionTime(currentPhase) ELSE remainingTime
           m     == startMetronomeClicks(intervals, phaseBpm(currentPhase))
           counting == isPlaying /\ ~isPaused
       IN  /\ currentPhase' = phase
           /\ IF transition
              THEN /\ metronomeIntervalId' = m.id
                   /\ intervals' = m.ivs
                   /\ beatCounter' = m.beat
              ELSE UNCHANGED <<metronomeIntervalId, intervals, beatCounter>>
           /\ remainingTime' = clampTime(IF counting THEN decrementTime(time) ELSE time)
           /\ totalTime' = IF counting THEN totalTime + 1 ELSE totalTime
           /\ run' = IF run.k >= 0 THEN [run EXCEPT !.k = @ + 1] ELSE run
           /\ event' = Event("tick", IF transition THEN "transition" ELSE "countdown",
                             <<>>, IF transition THEN m.played ELSE <<>>)
    /\ UNCHANGED <<config, isPlaying, isPaused, countdownTimerId, loading, audioContext,
                   pendingStarts>>

updatePhase == updatePhaseWithin(MaxTotal)

(* playClick, the callback of the metronome interval. *)
playClick ==
    /\ \E t \in intervals : t.fn = "playClick"
    /\ beatCounter' = playClickBeat(beatCounter)
    /\ event' = Event("click", IF audioPlayable THEN "played" ELSE "skipped",
                      <<>>, playClickSound(beatCounter))
    /\ UNCHANGED <<config, session, timers, loading, audioContext, pendingStarts, run>>

(* A settings field is edited through its bound input (bind:bpm,           *)
(* bind:durationSeconds): the assignment is all App.svelte does.           *)
editValue(field, value) ==
    /\ slowBpm' = IF field = "slowBpm" THEN value ELSE slowBpm
    /\ slowDurationSeconds' =
           IF field = "slowDurationSeconds" THEN value ELSE slowDurationSeconds
    /\ fastBpm' = IF field = "fastBpm" THEN value ELSE fastBpm
    /\ fastDurationSeconds' =
           IF field = "fastDurationSeconds" THEN value ELSE fastDurationSeconds
    /\ volume' = volume
    /\ config' # config
    /\ event' = Event("edit", "edited", <<>>, <<>>)
    /\ UNCHANGED <<session, timers, loading, audioContext, beatCounter, pendingStarts, run>>

editConfig ==
    \/ \E v \in SlowBpmValues : editValue("slowBpm", v)
    \/ \E v \in SlowDurValues : editValue("slowDurationSeconds", v)
    \/ \E v \in FastBpmValues : editValue("fastBpm", v)
    \/ \E v \in FastDurValues : editValue("fastDurationSeconds", v)

Apart == UNCHANGED <<saver, surface, leg>>

(* Spec is the session machine.  What a handler pushes to the message box *)
(* is recorded in event.shown; the box, the settings store and their       *)
(* timeouts change nothing a handler reads, and here they stay as the      *)
(* mount left them: SpecSave and SpecMessages are where they move.         *)
Next ==
    \/ loadTick /\ Apart
    \/ loadTack /\ Apart
    \/ loadFail /\ Apart
    \/ contextSuspend /\ Apart
    \/ handleStart /\ Apart
    \/ handleStartAwait /\ Apart
    \/ handleStartResumed /\ Apart
    \/ handleStartResumeFailed /\ Apart
    \/ handlePause /\ Apart
    \/ handleStop /\ Apart
    \/ updatePhase /\ Apart
    \/ playClick /\ Apart
    \/ editConfig /\ Apart

Spec == Init /\ [][Next]_vars

(* The same program started on settings at and around the validation       *)
(* limits, without the timer callbacks and the edits: the configurations   *)
(* handleStart can meet, each in Ready, Running and Paused.                *)
InitBoundary == InitWith(BpmBoundary, DurBoundary, BpmBoundary, DurBoundary,
                         {DefaultVolume})

NextBoundary ==
    \/ loadTick /\ Apart
    \/ loadTack /\ Apart
    \/ loadFail /\ Apart
    \/ handleStart /\ Apart
    \/ handleStartAwait /\ Apart
    \/ handleStartResumed /\ Apart
    \/ handleStartResumeFailed /\ Apart
    \/ handlePause /\ Apart
    \/ handleStop /\ Apart

SpecBoundary == InitBoundary /\ [][NextBoundary]_vars

---------------------------------------------------------------------------
(* The metronome functions on their own: startMetronomeClicks,             *)
(* stopMetronomeClicks and the playClick callback applied at any point of  *)
(* the audio loading, without handleStart's isAudioReady check in front of *)
(* them.  This is where playClick's not-ready branch runs; in Spec a click *)
(* interval exists only once the context and both buffers are there.       *)
callStartMetronomeClicks(bpmToUse) ==
    LET m == startMetronomeClicks(intervals, bpmToUse)
    IN  /\ metronomeIntervalId' = m.id
        /\ intervals' = m.ivs
        /\ beatCounter' = m.beat
        /\ event' = Event("restart", IF audioPlayable THEN "played" ELSE "skipped",
                          <<>>, m.played)
        /\ UNCHANGED <<config, session, countdownTimerId, loading, audioContext,
                       pendingStarts, run>>

callStopMetronomeClicks ==
    LET m == stopMetronomeClicks(intervals)
    IN  /\ metronomeIntervalId' = m.id
        /\ intervals' = m.ivs
        /\ event' = Event("halt", "halted", <<>>, <<>>)
        /\ UNCHANGED <<config, session, countdownTimerId, loading, audioContext,
                       beatCounter, pendingStarts, run>>

NextDriver ==
    \/ loadTick /\ Apart
    \/ loadTack /\ Apart
    \/ loadFail /\ Apart
    \/ callStartMetronomeClicks(slowBpm) /\ Apart
    \/ callStartMetronomeClicks(fastBpm) /\ Apart
    \/ callStopMetronomeClicks /\ Apart
    \/ playClick /\ Apart

SpecDriver == Init /\ [][NextDriver]_vars

----------------------------------------------------------------------------
(* The volume on its own: any stored volume from 0 to 100 at mount, then   *)
(* the slider, which sets multiples of its step.  No handler or callback   *)
(* reads or writes volume, so Spec keeps it at its default.                *)
VolumeValues == 0 .. MaxVolume

SliderValues == {v \in VolumeValues : v % VolumeStep = 0}

(* Mutant: the slider is wired to the handler of the settings fields of   *)
(* the earlier variant, which stops a session in progress.                *)
setVolumeStops(value) ==
    LET m == stopMetronomeClicks(intervals)
        c == stopCountdown(m.ivs)
        inSession == isPlaying \/ isPaused
    IN  /\ value # volume
        /\ volume' = value
        /\ event' = Event("volume", "set", <<>>, <<>>)
        /\ isPlaying' = FALSE
        /\ isPaused' = FALSE
        /\ metronomeIntervalId' = IF inSession THEN m.id ELSE metronomeIntervalId
        /\ countdownTimerId' = IF inSession THEN c.id ELSE countdownTimerId
        /\ intervals' = IF inSession THEN c.ivs ELSE intervals
        /\ currentPhase' = IF inSession THEN "ready" ELSE currentPhase
        /\ remainingTime' = IF inSession THEN 0 ELSE remainingTime
        /\ totalTime' = IF inSession THEN 0 ELSE totalTime
        /\ beatCounter' = IF inSession THEN 0 ELSE beatCounter
        /\ run' = IF inSession THEN NoRun ELSE run
        /\ UNCHANGED <<slowBpm, slowDurationSeconds, fastBpm, fastDurationSeconds,
                       loading, audioContext, pendingStarts>>

setVolume(value) ==
    /\ value # volume
    /\ volume' = value
    /\ event' = Event("volume", "set", <<>>, <<>>)
    /\ UNCHANGED <<slowBpm, slowDurationSeconds, fastBpm, fastDurationSeconds,
                   session, timers, loading, audioContext, beatCounter,
                   pendingStarts, run>>

InitVolume == InitWith(SlowBpmValues, SlowDurValues, FastBpmValues, FastDurValues,
                       VolumeValues)

NextVolume == \E v \in SliderValues : setVolume(v) /\ Apart

SpecVolume == InitVolume /\ [][NextVolume]_vars

----------------------------------------------------------------------------
(* The program with the durations a number input can hold besides the     *)
(* integers of Spec: a fraction (10.5, inside the validation range) and a  *)
(* negative number typed during a run.  The bpm fields keep one value.     *)
SlowDurFraction == {10, Half(10)}

FastDurTyped == {0 - 5, 11, Half(10)}

editDuration == \E v \in FastDurTyped : editValue("fastDurationSeconds", v)

InitDurations == InitWith({60}, SlowDurFraction, {120}, FastDurTyped, {DefaultVolume})

NextDurations ==
    \/ loadTick /\ Apart
    \/ loadTack /\ Apart
    \/ loadFail /\ Apart
    \/ handleStart /\ Apart
    \/ handleStartAwait /\ Apart
    \/ handleStartResumed /\ Apart
    \/ handleStartResumeFailed /\ Apart
    \/ handlePause /\ Apart
    \/ handleStop /\ Apart
    \/ updatePhase /\ Apart
    \/ playClick /\ Apart
    \/ editDuration /\ Apart

SpecDurations == InitDurations /\ [][NextDurations]_vars

----------------------------------------------------------------------------
(* The settings saver.  The second $effect reads the five settings and     *)
(* calls debouncedSaveSettings, so it runs after every step that changed   *)
(* one of them; the timeout callback is saveSettingsToLocalStorage and     *)
(* debounceTimeoutId = null.  Time passes in steps of Quantum ms, and a    *)
(* timeout that is due runs before more time passes.                      *)
Quantum == 250

Min(a, b) == IF a < b THEN a ELSE b

clearTimeout(tms, id) == {t \in tms : t.id # id}

(* Mutant: the pending timeout is not cleared before the new one is set. *)
debouncedSaveSettingsNoClear ==
    /\ saveTimers' = saveTimers \cup
                        {[id |-> FreshId(saveTimers), due |-> DEBOUNCE_DELAY_MS]}
    /\ debounceTimeoutId' = FreshId(saveTimers)
    /\ sinceEdit' = 0
    /\ burst' = IF writes > 0 THEN 1 ELSE Min(burst + 1, MaxBurst)
    /\ writes' = 0
    /\ UNCHANGED store

debouncedSaveSettings ==
    LET cleared == IF debounceTimeoutId # Null
                   THEN clearTimeout(saveTimers, debounceTimeoutId) ELSE saveTimers
    IN  /\ saveTimers' = cleared \cup
                            {[id |-> FreshId(cleared), due |-> DEBOUNCE_DELAY_MS]}
        /\ debounceTimeoutId' = FreshId(cleared)
        /\ sinceEdit' = 0
        /\ burst' = IF writes > 0 THEN 1 ELSE Min(burst + 1, MaxBurst)
        /\ writes' = 0
        /\ UNCHANGED store

(* The timeout callback: the settings as they are now go to the store. *)
saveTimeout ==
    /\ \E t \in saveTimers :
          /\ t.due = 0
          /\ saveTimers' = saveTimers \ {t}
    /\ store' = config
    /\ debounceTimeoutId' = Null
    /\ writes' = writes + 1
    /\ event' = Event("save", "written", <<>>, <<>>)
    /\ UNCHANGED <<config, session, timers, loading, audioContext, beatCounter,
                   pendingStarts, run, sinceEdit, burst, surface, leg>>

(* Quantum ms pass with a save timeout pending and none of them due. *)
advanceSave ==
    /\ saveTimers # {}
    /\ \A t \in saveTimers : t.due >= Quantum
    /\ saveTimers' = {[t EXCEPT !.due = @ - Quantum] : t \in saveTimers}
    /\ sinceEdit' = sinceEdit + Quantum
    /\ event' = Event("time", "passed", <<>>, <<>>)
    /\ UNCHANGED <<config, session, timers, loading, audioContext, beatCounter,
                   pendingStarts, run, debounceTimeoutId, store, burst, writes,
                   surface, leg>>

NextSave ==
    \/ editConfig /\ debouncedSaveSettings /\ UNCHANGED <<surface, leg>>
    \/ advanceSave
    \/ saveTimeout

SpecSave == Init /\ [][NextSave]_vars

----------------------------------------------------------------------------
(* The message box.  showMessage puts the message into the one element,   *)
(* makes it opaque and sets a timeout that makes it transparent again; it  *)
(* keeps no handle of that timeout.  Timeouts set at the same instant run  *)
(* the same callback at the same instant, so hideTimers holds the delays   *)
(* left, one entry for each instant.  Time passes in steps of MessageTick  *)
(* ms, and a timeout that is due runs before more time passes.             *)
MessageTick == 1000

(* Mutant: the message is appended to the text already in the box. *)
showMessageAppends(box, tms, message) ==
    [box |-> [text |-> Append(box.text, message), opacity |-> 1],
     tms |-> tms \cup {MessageDuration}]

showMessage(box, tms, message) ==
    [box |-> [text |-> <<message>>, opacity |-> 1],
     tms |-> tms \cup {MessageDuration}]

(* The showMessage calls of one handler, in their order. *)
RECURSIVE showAll(_, _, _)
showAll(box, tms, shown) ==
    IF shown = <<>> THEN [box |-> box, tms |-> tms]
    ELSE LET s == showMessage(box, tms, Head(shown))
         IN  showAll(s.box, s.tms, Tail(shown))

(* A handler's effect on the box: the messages it showed, event'.shown. *)
showShown ==
    LET s == showAll(messageBox, hideTimers, event'.shown)
    IN  /\ messageBox' = s.box
        /\ hideTimers' = s.tms
        /\ UNCHANGED <<saver, leg>>

(* The hide callback of a timeout that is due. *)
hideTimeout ==
    /\ 0 \in hideTimers
    /\ hideTimers' = hideTimers \ {0}
    /\ messageBox' = [messageBox EXCEPT !.opacity = 0]
    /\ event' = Event("hide", "hidden", <<>>, <<>>)
    /\ UNCHANGED <<config, session, timers, loading, audioContext, beatCounter,
                   pendingStarts, run, saver, leg>>

(* MessageTick ms pass with a hide timeout pending and none of them due. *)
advanceSurface ==
    /\ hideTimers # {}
    /\ \A d \in hideTimers : d >= MessageTick
    /\ hideTimers' = {d - MessageTick : d \in hideTimers}
    /\ event' = Event("time", "passed", <<>>, <<>>)
    /\ UNCHANGED <<config, session, timers, loading, audioContext, beatCounter,
                   pendingStarts, run, saver, messageBox, leg>>

NextMessages ==
    \/ loadTick /\ showShown
    \/ loadTack /\ showShown
    \/ loadFail /\ showShown
    \/ handleStart /\ showShown
    \/ handleStartAwait /\ showShown
    \/ handleStartResumed /\ showShown
    \/ handleStartResumeFailed /\ showShown
    \/ handlePause /\ showShown
    \/ handleStop /\ showShown
    \/ hideTimeout
    \/ advanceSurface

SpecMessages == Init /\ [][NextMessages]_vars

----------------------------------------------------------------------------
(* Notions the claims share. *)
Running == isPlaying /\ ~isPaused
Paused  == isPaused /\ ~isPlaying
Stopped == ~isPlaying /\ ~isPaused

phaseDuration(phase) ==
    IF phase = "slow" THEN slowDurationSeconds ELSE fastDurationSeconds

(* The click schedule is the one live interval calling playClick, held by  *)
(* metronomeIntervalId, with the period of bpm.                            *)
ClickScheduleAt(bpm) ==
    /\ metronomeIntervalId # Null
    /\ {t \in intervals : t.fn = "playClick"} =
           {[id |-> metronomeIntervalId, fn |-> "playClick", ms |-> 60000 \div bpm]}

(* The tick loop is the one live interval calling updatePhase every        *)
(* second, held by countdownTimerId.                                       *)
TickLoopStarted ==
    /\ countdownTimerId # Null
    /\ {t \in intervals : t.fn = "updatePhase"} =
           {[id |-> countdownTimerId, fn |-> "updatePhase", ms |-> 1000]}

InRange ==
    /\ slowBpm \in MinBpm..MaxBpm /\ fastBpm \in MinBpm..MaxBpm
    /\ slowDurationSeconds \in MinDuration..MaxDuration
    /\ fastDurationSeconds \in MinDuration..MaxDuration

StartCompleted == event.op = "start"

(* C1: after a fresh start with slow duration D, the D-th tick leaves      *)
(* phase = Fast with remainingSeconds = the fast duration.                 *)
C1_DthTickTransitions ==
    (event.op = "tick" /\ run.k >= 0 /\ run.k = run.d)
        => (currentPhase = "fast" /\ remainingTime = fastDurationSeconds)

(* C2: a tick that performs a phase transition ends with remainingSeconds  *)
(* equal to the full configured duration of the new phase.                 *)
C2_TransitionKeepsFullDuration ==
    (event.op = "tick" /\ event.result = "transition")
        => remainingTime = phaseDuration(currentPhase)

(* C3: with audio ready and every field in range, a start() that runs from *)
(* Ready leaves phase = Slow, Running, remainingSeconds = the slow         *)
(* duration, the click schedule at slow.bpm and the tick loop started.     *)
C3_StartFromReady ==
    [][(StartCompleted' /\ event'.result # "AudioResumeFailed"
            /\ currentPhase = "ready" /\ isAudioReady /\ InRange)
        => (/\ currentPhase' = "slow"
            /\ Running'
            /\ remainingTime' = slowDurationSeconds
            /\ ClickScheduleAt(slowBpm)'
            /\ TickLoopStarted')]_vars

C3_Witness ==
    /\ StartCompleted /\ event.result = "started"
    /\ currentPhase = "slow" /\ Running /\ totalTime = 0
    /\ remainingTime = slowDurationSeconds
    /\ ClickScheduleAt(slowBpm) /\ TickLoopStarted

(* C4: pause() leaves phase and remainingSeconds as they are, nothing      *)
(* changes them while the session stays Paused, and the start() that       *)
(* resumes keeps them, sets Running and restarts the metronome at the bpm  *)
(* of that phase.                                                          *)
C4_PauseResumeRestores ==
    [][/\ (event'.op = "pause" /\ Running)
            => (Paused' /\ currentPhase' = currentPhase
                        /\ remainingTime' = remainingTime)
       /\ (isPaused /\ isPaused')
            => (currentPhase' = currentPhase /\ remainingTime' = remainingTime)
       /\ (StartCompleted' /\ event'.result = "resumed")
            => (/\ Paused /\ Running'
                /\ currentPhase' = currentPhase
                /\ remainingTime' = remainingTime
                /\ currentPhase = "slow" => ClickScheduleAt(slowBpm)'
                /\ currentPhase = "fast" => ClickScheduleAt(fastBpm)')]_vars

C4_Witness ==
    /\ StartCompleted /\ event.result = "resumed"
    /\ Running /\ currentPhase = "fast" /\ remainingTime > 0
    /\ ClickScheduleAt(fastBpm)

(* C5: stop() is enabled in every state and leaves phase = Ready, Stopped, *)
(* remainingSeconds = 0, beat parity 0, both handles null and no interval  *)
(* live.                                                                   *)
C5_StopResets ==
    /\ ENABLED handleStop
    /\ event.op = "stop"
        => (/\ currentPhase = "ready" /\ Stopped
            /\ remainingTime = 0 /\ beatCounter = 0
            /\ metronomeIntervalId = Null /\ countdownTimerId = Null
            /\ intervals = {})

C5_Witness ==
    /\ event.op = "stop" /\ event.result = "paused"
    /\ currentPhase = "ready" /\ Stopped /\ remainingTime = 0
    /\ intervals = {}

(* The event of stop() names the run mode it was called in.                *)
(* C6: the state stop() leaves is the state of a freshly loaded app in     *)
(* every variable of the session, and the start() that follows it leaves   *)
(* what a first start() leaves: nothing of the earlier session is left.    *)
FreshSession ==
    /\ session = <<FALSE, FALSE, "ready", 0, 0>>
    /\ timers = <<Null, Null, {}>>
    /\ beatCounter = 0

C7_EditForcesStop ==
    [][(event'.op = "edit" /\ (isPlaying \/ isPaused))
        => (/\ Stopped' /\ currentPhase' = "ready"
            /\ remainingTime' = 0 /\ intervals' = {}
            /\ Len(event'.shown) = 1)]_vars

(* C8: a start() that reaches the range check is rejected with the         *)
(* validation message exactly when some bpm is outside 40..240 or some     *)
(* duration outside 10..300 or not a number.                               *)
C8_ValidationAtLimits ==
    StartCompleted =>
        /\ event.result = "ValidationFailed"
            => (~InRange /\ event.shown = <<MsgValidation>>)
        /\ event.result \in {"started", "resumed"} => InRange
        /\ (isAudioReady /\ event.result # "AudioResumeFailed")
            => (event.result = "ValidationFailed" <=> ~InRange)

C8_Witness ==
    /\ StartCompleted /\ event.result = "started"
    /\ slowBpm = 40 /\ fastBpm = 240
    /\ slowDurationSeconds = 10 /\ fastDurationSeconds = 300

(* C9: a start() rejected by the range check changes no settings field,    *)
(* nothing of the session, neither handle nor any interval, nor the beat   *)
(* parity; it shows the validation message and plays nothing.              *)
C9_RejectedStartChangesNothing ==
    [][(StartCompleted' /\ event'.result = "ValidationFailed")
        => (/\ UNCHANGED <<config, session, timers, beatCounter, loading>>
            /\ event'.shown = <<MsgValidation>>
            /\ event'.played = <<>>)]_vars

C9_Witness ==
    /\ StartCompleted /\ event.result = "ValidationFailed"
    /\ Paused /\ currentPhase = "fast" /\ ~InRange

(* C10: a start() that finds the audio-ready flag false is refused with    *)
(* one message and changes nothing of the session or the timers; once the  *)
(* load has failed the flag stays false, so every later start() is refused.*)
C10_NotReadyRefused ==
    [][/\ (StartCompleted' /\ ~isAudioReady)
            => (/\ event'.result \in {"AudioNotReady", "AudioResumeFailed"}
                /\ Len(event'.shown) = 1
                /\ UNCHANGED <<config, session, timers, beatCounter>>)
       /\ (loadPc = "failed")
            => (loadPc' = "failed" /\ ~isAudioReady /\ ~isAudioReady' /\ Stopped')]_vars

C10_Witness ==
    /\ StartCompleted /\ event.result = "AudioNotReady"
    /\ loadPc = "failed" /\ InRange /\ Stopped

(* C11: with the context suspended, start() awaits resume() before it does *)
(* anything else; a call whose resume() is rejected shows one message and  *)
(* changes no settings field, nothing of the session, neither handle, no   *)
(* interval and not the beat parity.                                       *)
C11_ResumeFirstAndAbortOnFailure ==
    [][/\ (event'.op = "startAwait")
            => (/\ audioContext = "suspended"
                /\ pendingStarts' = pendingStarts + 1
                /\ UNCHANGED <<config, session, timers, loading, audioContext,
                               beatCounter>>)
       /\ (StartCompleted' /\ audioContext = "suspended")
            => pendingStarts' = pendingStarts - 1
       /\ (pendingStarts' < pendingStarts /\ audioContext' = "suspended")
            => event'.result = "AudioResumeFailed"
       /\ (StartCompleted' /\ event'.result = "AudioResumeFailed")
            => (/\ event'.shown = <<MsgResumeFailed>>
                /\ event'.played = <<>>
                /\ UNCHANGED <<config, session, timers, loading, audioContext,
                               beatCounter>>)]_vars

C11_Witness ==
    /\ StartCompleted /\ event.result = "AudioResumeFailed"
    /\ audioContext = "suspended" /\ isAudioReady /\ InRange
    /\ Stopped /\ currentPhase = "ready" /\ intervals = {}

C13_PauseOutsideRunningIsNoOp ==
    [][/\ (event'.op = "pause" /\ ~Running)
            => (/\ UNCHANGED <<config, session, timers, loading, audioContext,
                               beatCounter, pendingStarts>>
                /\ event'.shown = <<>> /\ event'.played = <<>>)
       /\ isPaused => currentPhase # "ready"]_vars

C13_Witness ==
    /\ event.op = "pause" /\ event.result = "ignored"
    /\ Paused /\ currentPhase = "fast" /\ remainingTime > 0 /\ intervals = {}

(* C14: in every reachable state, whatever the interleaving of starts      *)
(* (overlapping ones included), pauses, stops, ticks and clicks, at most   *)
(* one click interval and at most one tick interval are live, each live    *)
(* interval is the one its handle refers to, and a non-null handle refers  *)
(* to a live interval of its own kind.                                     *)
C14_OneIntervalPerHandle ==
    /\ \A t \in intervals :
          /\ t.fn = "playClick" => t.id = metronomeIntervalId
          /\ t.fn = "updatePhase" => t.id = countdownTimerId
    /\ \A t, u \in intervals : t.id = u.id => t = u
    /\ Cardinality({t \in intervals : t.fn = "playClick"}) <= 1
    /\ Cardinality({t \in intervals : t.fn = "updatePhase"}) <= 1
    /\ metronomeIntervalId # Null
          => \E t \in intervals : t.id = metronomeIntervalId /\ t.fn = "playClick"
    /\ countdownTimerId # Null
          => \E t \in intervals : t.id = countdownTimerId /\ t.fn = "updatePhase"

C14_Witness ==
    /\ StartCompleted /\ event.result = "started"
    /\ totalTime > 0 /\ pendingStarts > 0
    /\ Cardinality(intervals) = 2

(* C15: the state a transition tick leaves has exactly one click interval, *)
(* the one held by the metronome handle, and its period is that of the new *)
(* phase's bpm: the restart happens inside the tick callback, so no click  *)
(* interval at the old phase's period outlives the tick.                   *)
C15_TransitionRestartsAtNewBpm ==
    (event.op = "tick" /\ event.result = "transition")
        => /\ currentPhase \in {"slow", "fast"}
           /\ ClickScheduleAt(phaseBpm(currentPhase))
           /\ \A t \in intervals :
                 t.fn = "playClick" => t.ms = intervalDuration(phaseBpm(currentPhase))

C15_Witness ==
    /\ event.op = "tick" /\ event.result = "transition"
    /\ currentPhase = "fast" /\ InRange
    /\ intervalDuration(slowBpm) # intervalDuration(fastBpm)
    /\ ClickScheduleAt(fastBpm) /\ ~ClickScheduleAt(slowBpm)

(* A step that restarted the metronome: a completed start or resume, or a  *)
(* transition tick.                                                        *)
Restarted ==
    \/ StartCompleted /\ event.result \in {"started", "resumed"}
    \/ event.op = "tick" /\ event.result = "transition"

(* C16: the state every metronome restart leaves has one click interval    *)
(* (the previous one is gone), held by the handle; the restart emitted at  *)
(* most one sound, and with audio ready exactly one, the primary (tick)    *)
(* sound, played at parity 0, so the parity it leaves is 1.                *)
C16_RestartResetsAndClicksOnce ==
    Restarted
        => /\ metronomeIntervalId # Null
           /\ Cardinality({t \in intervals : t.fn = "playClick"}) = 1
           /\ \A t \in intervals : t.fn = "playClick" => t.id = metronomeIntervalId
           /\ Len(event.played) <= 1
           /\ audioPlayable => (event.played = <<"tick">> /\ beatCounter = 1)

C16_Witness ==
    /\ StartCompleted /\ event.result = "resumed"
    /\ event.played = <<"tick">> /\ beatCounter = 1
    /\ currentPhase = "fast" /\ ClickScheduleAt(fastBpm) /\ totalTime > 0

(* C17: the beat parity is 0 or 1; a click callback that emits a sound     *)
(* emits the primary sound at parity 0 and the secondary at parity 1 and   *)
(* flips the parity, changing nothing of the settings, the session or the  *)
(* timers; every emitted primary sound leaves parity 1 and every secondary *)
(* leaves parity 0, and the parity changes in no step other than one that  *)
(* emits a sound or a stop, so the sounds between two restarts alternate.  *)
C17_ParityAlternatesAndIsCosmetic ==
    [][/\ beatCounter \in {0, 1} /\ beatCounter' \in {0, 1}
       /\ (event'.op = "click" /\ event'.played # <<>>)
            => (/\ event'.played = IF beatCounter = 0 THEN <<"tick">> ELSE <<"tack">>
                /\ beatCounter' = 1 - beatCounter
                /\ UNCHANGED <<config, session, timers, loading, audioContext>>)
       /\ event'.played = <<"tick">> => beatCounter' = 1
       /\ event'.played = <<"tack">> => beatCounter' = 0
       /\ beatCounter' # beatCounter
            => (Len(event'.played) = 1 \/ event'.op = "stop")]_vars

C17_Witness ==
    /\ event.op = "click" /\ event.played = <<"tack">>
    /\ beatCounter = 0 /\ Running /\ remainingTime > 0

(* A click interval is live only with the audio playable: in the program   *)
(* as wired, playClick never meets its not-ready branch.                   *)
ClickImpliesPlayable ==
    (\E t \in intervals : t.fn = "playClick") => audioPlayable

(* C18: a click callback run without the audio context or without one of   *)
(* the buffers plays nothing, shows no message and changes nothing: not    *)
(* the beat parity, not a timer, not the session.                          *)
C18_NotReadyClickIsSkipped ==
    [][(event'.op = "click" /\ ~audioPlayable)
          => /\ event'.result = "skipped"
             /\ event'.played = <<>> /\ event'.shown = <<>>
             /\ UNCHANGED <<config, session, timers, loading, audioContext,
                            beatCounter, pendingStarts>>]_vars

C18_Witness ==
    /\ event.op = "click" /\ event.result = "skipped"
    /\ audioContext # "null" /\ tickBuffer /\ ~tackBuffer
    /\ metronomeIntervalId # Null /\ beatCounter = 0

(* C19: a stop() called in the state a stop() has just left changes        *)
(* nothing of the settings, the session, the beat parity, the handles or   *)
(* the timer table (it finds both handles null and cancels nothing), so    *)
(* stop(); stop() leaves the state that a single stop() leaves.            *)
C19_StopIsIdempotent ==
    [][(event.op = "stop" /\ event'.op = "stop")
          => /\ metronomeIntervalId = Null /\ countdownTimerId = Null
             /\ intervals = {}
             /\ event'.result = "ready"
             /\ UNCHANGED <<config, session, timers, loading, audioContext,
                            beatCounter, pendingStarts, run>>]_vars

C19_Witness ==
    /\ event.op = "stop" /\ event.result = "ready"
    /\ isAudioReady /\ InRange /\ Stopped /\ currentPhase = "ready"
    /\ remainingTime = 0 /\ totalTime = 0 /\ beatCounter = 0
    /\ metronomeIntervalId = Null /\ countdownTimerId = Null /\ intervals = {}

(* Order of two gains given as fractions with positive denominators. *)
GainLt(g, h) == g.num * h.den < h.num * g.den

(* C20: for every integer volume from 0 to 100 the gain is (volume/100)^2  *)
(* and, in the earlier variant, twice that; it is 0 at volume 0, equal to  *)
(* the scale (1, and 2 in the earlier variant) at volume 100, and greater  *)
(* than the gain of every smaller volume.                                  *)
C20_GainCurve ==
    LET g == effectiveVolumeGain(volume)
        h == effectiveVolumeGainTimes2(volume)
    IN  /\ volume \in VolumeValues
        /\ g.den > 0 /\ h.den > 0
        /\ g.num * MaxVolume * MaxVolume = volume * volume * g.den
        /\ h.num * MaxVolume * MaxVolume = 2 * volume * volume * h.den
        /\ volume = 0 => (g.num = 0 /\ h.num = 0)
        /\ volume = MaxVolume => (g.num = g.den /\ h.num = 2 * h.den)
        /\ \A u \in VolumeValues :
              u < volume => /\ GainLt(effectiveVolumeGain(u), g)
                            /\ GainLt(effectiveVolumeGainTimes2(u), h)

C20_Witness ==
    /\ event.op = "volume" /\ volume = MaxVolume
    /\ effectiveVolumeGain(volume).num = effectiveVolumeGain(volume).den
    /\ effectiveVolumeGainTimes2(volume).num = 2 * effectiveVolumeGainTimes2(volume).den

(* C21: the two play flags are never both true, the phase is one of ready, *)
(* slow and fast, and the phase is ready exactly when both flags are       *)
(* false: the reachable session states are Ready, Slow/Running,            *)
(* Slow/Paused, Fast/Running and Fast/Paused.                              *)
C21_FlagsEncodeOneMode ==
    /\ ~(isPlaying /\ isPaused)
    /\ currentPhase \in {"ready", "slow", "fast"}
    /\ (currentPhase = "ready") <=> Stopped

C21_Witness ==
    /\ event.op = "pause" /\ event.result = "paused"
    /\ currentPhase = "fast" /\ isPaused /\ ~isPlaying

(* The remaining time is never negative (and never NaN). *)
RemainingNonNegative == Le(0, remainingTime)

(* C22: in every reachable state remainingSeconds is an integer and is     *)
(* not negative.                                                           *)
C22_RemainingIsNonNegativeInteger ==
    isInteger(remainingTime) /\ Le(0, remainingTime)

(* C23: a tick runs only in phase slow or fast and leaves phase slow or    *)
(* fast; it changes the phase exactly when the remaining time is 0 at its  *)
(* entry, and then from slow to fast or from fast to slow.                 *)
C23_TickFlipsOnlyAtZero ==
    [][(event'.op = "tick")
          => /\ currentPhase \in {"slow", "fast"}
             /\ currentPhase' \in {"slow", "fast"}
             /\ (currentPhase' # currentPhase) <=> (remainingTime = 0)
             /\ (remainingTime = 0)
                   => currentPhase' = (IF currentPhase = "slow" THEN "fast" ELSE "slow")]_vars

C23_Witness ==
    /\ event.op = "tick" /\ event.result = "transition"
    /\ currentPhase = "slow" /\ Running /\ totalTime > slowDurationSeconds

(* C24: a tick entered with remainingSeconds = r > 0 leaves r - 1 and      *)
(* changes neither the phase, the play flags, the beat parity nor the      *)
(* click schedule, and emits no click; so k < D ticks after a fresh start  *)
(* with slow duration D the phase is slow with D - k seconds remaining.    *)
C24_CountdownTickFrame ==
    [][/\ (event'.op = "tick" /\ remainingTime > 0)
            => (/\ Running
                /\ remainingTime' = remainingTime - 1
                /\ event'.result = "countdown" /\ event'.played = <<>>
                /\ UNCHANGED <<config, currentPhase, isPlaying, isPaused, beatCounter,
                               timers, loading, audioContext>>)
       /\ (run.k >= 0 /\ run.k < run.d)
            => (currentPhase = "slow" /\ Running /\ remainingTime = run.d - run.k)]_vars

C24_Witness ==
    /\ event.op = "tick" /\ event.result = "countdown"
    /\ run.d = 10 /\ run.k = 9
    /\ currentPhase = "slow" /\ remainingTime = 1 /\ Running

(* C25: a step that makes the session Running, and every start() that      *)
(* starts or resumes a workout, is taken with all four settings in range   *)
(* (bpm 40..240, duration 10..300) at that step, and is such a start().    *)
C25_RunningOnlyFromValidConfig ==
    [][/\ (~Running /\ Running')
            => (/\ StartCompleted' /\ event'.result \in {"started", "resumed"}
                /\ InRange /\ InRange')
       /\ (StartCompleted' /\ event'.result \in {"started", "resumed"})
            => (InRange /\ UNCHANGED config)]_vars

C25_Witness ==
    /\ StartCompleted /\ event.result = "resumed"
    /\ Running /\ currentPhase = "slow" /\ InRange
    /\ remainingTime < slowDurationSeconds

(* C26: the session is Running only with the audio-ready flag true, and    *)
(* the flag is true only when the audio context exists and both buffers    *)
(* are decoded; so in every Running state both buffers are loaded.         *)
C26_RunningImpliesAudioLoaded ==
    /\ Running => isAudioReady
    /\ isAudioReady => (audioContext # "null" /\ tickBuffer /\ tackBuffer
                        /\ loadPc = "done")

C26_Witness ==
    /\ Running /\ isAudioReady /\ tickBuffer /\ tackBuffer
    /\ audioContext = "running" /\ event.op = "click"

C28_MessageBoxIsSingleSlot ==
    [][/\ Len(messageBox.text) <= 1 /\ Len(messageBox'.text) <= 1
       /\ messageBox.opacity \in {0, 1}
       /\ (event'.shown # <<>>)
            => (/\ messageBox' = [text |-> <<event'.shown[Len(event'.shown)]>>,
                                  opacity |-> 1]
                /\ MessageDuration \in hideTimers')
       /\ (messageBox'.text # messageBox.text) => event'.shown # <<>>]_vars

C28_Witness ==
    /\ event.shown = <<MsgValidation>>
    /\ messageBox = [text |-> <<MsgValidation>>, opacity |-> 1]
    /\ hideTimers = {MessageDuration, MessageDuration - MessageTick}

(* C29: the tick interval is live exactly when the session is Running, and *)
(* so is the click interval; the handle of each is null exactly when it is *)
(* not live.                                                               *)
C29_TimersAgreeWithRunMode ==
    /\ (\E t \in intervals : t.fn = "updatePhase") <=> Running
    /\ (\E t \in intervals : t.fn = "playClick") <=> Running
    /\ (countdownTimerId # Null) <=> Running
    /\ (metronomeIntervalId # Null) <=> Running

C29_Witness ==
    /\ Running /\ TickLoopStarted /\ ClickScheduleAt(phaseBpm(currentPhase))
    /\ currentPhase = "fast" /\ event.op = "tick" /\ event.result = "countdown"

(* C30: whenever the session is Running, the live click interval has the   *)
(* period of the bpm now configured for the current phase.                 *)
C30_ClickScheduleFollowsConfig ==
    Running => ClickScheduleAt(phaseBpm(currentPhase))

(* C31: when a stop() called on a Running or Paused session has run while  *)
(* a start() was suspended on resume(), the step in which that start()     *)
(* completes leaves the session Stopped in phase ready with no interval.   *)
C31_StartBeforeStopHasNoEffect ==
    [][(/\ event.op = "stop" /\ event.result \in {"running", "paused"}
        /\ pendingStarts > 0
        /\ StartCompleted' /\ pendingStarts' < pendingStarts)
          => (Stopped' /\ currentPhase' = "ready" /\ intervals' = {})]_vars

----------------------------------------------------------------------------
(* Whole phases.  The settings are the valid ones of Spec and stay as they *)
(* are; the tick runs for MaxWalk seconds of a session, which is a slow    *)
(* phase from start(), a fast phase and a slow phase entered by a tick.    *)
(* leg counts the ticks since the last transition tick and holds the       *)
(* duration of the phase it entered; a handler that completes in between   *)
(* ends the count.                                                         *)
InitWalk == InitWith(SlowBpmValues \cap (MinBpm .. MaxBpm),
                     SlowDurValues \cap (MinDuration .. MaxDuration),
                     FastBpmValues \cap (MinBpm .. MaxBpm),
                     FastDurValues \cap (MinDuration .. MaxDuration),
                     {DefaultVolume})

trackLeg ==
    /\ leg' = IF event'.op = "tick"
              THEN IF event'.result = "transition"
                   THEN [k |-> 0, d |-> phaseDuration(currentPhase)']
                   ELSE IF leg.k >= 0 THEN [leg EXCEPT !.k = @ + 1] ELSE leg
              ELSE IF event'.op \in {"click", "load", "startAwait"}
                   THEN leg ELSE NoRun
    /\ UNCHANGED <<saver, surface>>

tickWalk == updatePhaseWithin(MaxWalk) /\ trackLeg

NextWalk ==
    \/ loadTick /\ trackLeg
    \/ loadTack /\ trackLeg
    \/ loadFail /\ trackLeg
    \/ handleStart /\ trackLeg
    \/ handleStartAwait /\ trackLeg
    \/ handleStartResumed /\ trackLeg
    \/ handleStartResumeFailed /\ trackLeg
    \/ handlePause /\ trackLeg
    \/ handleStop /\ trackLeg
    \/ tickWalk
    \/ playClick /\ trackLeg

SpecWalk == InitWalk /\ [][NextWalk]_vars

(* The same walk left alone: no listener runs on a Running session and    *)
(* one call of handleStart is suspended at a time, so that a session,      *)
(* once Running, is moved by its two intervals only.                       *)
NextSteady ==
    \/ loadTick /\ trackLeg
    \/ loadTack /\ trackLeg
    \/ loadFail /\ trackLeg
    \/ ~isPlaying /\ handleStart /\ trackLeg
    \/ ~isPlaying /\ pendingStarts = 0 /\ handleStartAwait /\ trackLeg
    \/ handleStartResumed /\ trackLeg
    \/ handleStartResumeFailed /\ trackLeg
    \/ tickWalk
    \/ playClick /\ trackLeg

(* setInterval calls updatePhase every second for as long as the interval  *)
(* is registered: the tick is weakly fair.                                 *)
SpecSteady == InitWalk /\ [][NextSteady]_vars /\ WF_vars(tickWalk)

----------------------------------------------------------------------------
(* The slider moved during a session: the session machine on valid         *)
(* settings, with the volume set to the ends of the slider and its default *)
(* at any point.                                                           *)
VolumeSample == {0, DefaultVolume, MaxVolume}

InitSlider == InitWith(SlowBpmValues \cap (MinBpm .. MaxBpm),
                       SlowDurValues \cap (MinDuration .. MaxDuration),
                       FastBpmValues \cap (MinBpm .. MaxBpm),
                       FastDurValues \cap (MinDuration .. MaxDuration),
                       VolumeSample)

NextSlider ==
    \/ loadTick /\ Apart
    \/ loadTack /\ Apart
    \/ loadFail /\ Apart
    \/ handleStart /\ Apart
    \/ handleStartAwait /\ Apart
    \/ handleStartResumed /\ Apart
    \/ handleStartResumeFailed /\ Apart
    \/ handlePause /\ Apart
    \/ handleStop /\ Apart
    \/ updatePhase /\ Apart
    \/ playClick /\ Apart
    \/ \E v \in VolumeSample : setVolume(v) /\ Apart

SpecSlider == InitSlider /\ [][NextSlider]_vars

----------------------------------------------------------------------------
(* Overlapping calls of handleStart on a paused session.  The listeners    *)
(* are as in Spec, except that Start is pressed on a suspended context     *)
(* only while the session is Paused, and Pause and Stop are not pressed    *)
(* while a call is suspended: every suspended call here was made on the    *)
(* paused session it completes on.                                         *)
NextOverlap ==
    \/ loadTick /\ Apart
    \/ loadTack /\ Apart
    \/ loadFail /\ Apart
    \/ contextSuspend /\ Apart
    \/ handleStart /\ Apart
    \/ isPaused /\ handleStartAwait /\ Apart
    \/ handleStartResumed /\ Apart
    \/ handleStartResumeFailed /\ Apart
    \/ pendingStarts = 0 /\ handlePause /\ Apart
    \/ pendingStarts = 0 /\ handleStop /\ Apart
    \/ updatePhase /\ Apart
    \/ playClick /\ Apart

SpecOverlap == Init /\ [][NextOverlap]_vars

(* C32: when one of two start() calls suspended on a paused session has    *)
(* resumed it, the completion of the other leaves the session Running in   *)
(* the phase and with the remainingTime of the pause.                      *)
C32_OverlappingStartsKeepProgress ==
    [][(/\ event.op = "start" /\ event.result = "resumed"
        /\ pendingStarts > 0
        /\ StartCompleted' /\ pendingStarts' < pendingStarts)
          => (/\ Running'
              /\ currentPhase' = currentPhase
              /\ remainingTime' = remainingTime)]_vars

(* C33: a tick that follows a transition tick, with no handler completed   *)
(* in between, is the next transition tick exactly when it is the d-th     *)
(* tick after that one, d being the duration of the phase entered.         *)
C33_TickEnteredPhaseLastsItsDuration ==
    [][(leg.k >= 0 /\ event'.op = "tick")
          => ((event'.result = "transition") <=> (leg.k + 1 = leg.d))]_vars

C33_Witness ==
    /\ event.op = "tick" /\ event.result = "transition"
    /\ run.k = (run.d + 1) + fastDurationSeconds
    /\ currentPhase = "slow" /\ Running
    /\ leg = [k |-> 0, d |-> slowDurationSeconds]

(* C34: a session left Running with the tick firing fairly, in the slow    *)
(* phase with enough of the explored MaxWalk seconds left to count the     *)
(* phase down, eventually is in the fast phase, and in the fast phase      *)
(* eventually in the slow phase: the countdown does not stay at 0.         *)
C34_PhasesAlternate ==
    /\ (Running /\ currentPhase = "slow" /\ totalTime + remainingTime < MaxWalk)
          ~> (currentPhase = "fast")
    /\ (Running /\ currentPhase = "fast" /\ totalTime + remainingTime < MaxWalk)
          ~> (currentPhase = "slow")

C34_Witness ==
    /\ event.op = "tick" /\ event.result = "transition"
    /\ Running /\ currentPhase = "slow"
    /\ totalTime = (slowDurationSeconds + 1) + fastDurationSeconds

(* C35: the box is transparent only when no hide timeout is pending.  The  *)
(* timeouts all run MessageDuration ms, so the one set with the message    *)
(* now in the box is the last of the pending ones to run: a box that is    *)
(* transparent while one is pending has lost its message before the        *)
(* message's own time was up.                                              *)
C35_MessageKeepsItsDuration ==
    (messageBox.opacity = 0) => (hideTimers = {})

(* C36: a change of the volume, in any state, leaves the session (flags,   *)
(* phase, remaining and total time), the beat counter, the two handles     *)
(* and the live intervals as they are and emits no sound; what it changes  *)
(* is the volume and with it the gain the next clicks are played at.       *)
C36_VolumeChangesOnlyTheGain ==
    [][(event'.op = "volume")
          => /\ UNCHANGED <<session, timers, beatCounter, pendingStarts>>
             /\ UNCHANGED <<slowBpm, slowDurationSeconds, fastBpm,
                            fastDurationSeconds, loading, audioContext>>
             /\ event'.played = <<>> /\ event'.shown = <<>>
             /\ effectiveVolumeGain(volume') # effectiveVolumeGain(volume)]_vars

C36_Witness ==
    /\ event.op = "volume"
    /\ Running /\ currentPhase = "fast" /\ remainingTime > 0
    /\ ClickScheduleAt(fastBpm) /\ TickLoopStarted
    /\ volume = MaxVolume

====
